---------------------------- MODULE Spec2Model ----------------------------
(***************************************************************************)
(* ChurnGuard backend: normalisation (utils/data_preprocessing.py), the    *)
(* prediction and attribution services (services/*.py) and the HTTP        *)
(* handlers with their process-wide state (routes.py).                     *)
(*                                                                         *)
(* Cell values are tagged: Str(<characters>), Num(n), NaN.  Strings are    *)
(* sequences of one-character strings so that parsing is computed.         *)
(* Probabilities and attributions are integers in thousandths.             *)
(***************************************************************************)
EXTENDS Integers, Sequences, FiniteSets, TLC

VARIABLES
    model,                      \* routes.py:29   the artifact, or None
    latest_prediction_storage,  \* routes.py:47   the global dict
    cl,                         \* per client: the request in flight / last served
    args,                       \* inputs of the function under study (pure specs)
    ret                         \* what it returned (pure specs)

vars == <<model, latest_prediction_storage, cl, args, ret>>

None == [t |-> "none"]

-----------------------------------------------------------------------------
(* Cell values *)

Str(s) == [t |-> "str", s |-> s]
Num(n) == [t |-> "num", n |-> n]
NaN == [t |-> "nan"]

S_No == <<"N", "o">>
S_Yes == <<"Y", "e", "s">>
S_NoInternetService ==
    <<"N", "o", " ", "i", "n", "t", "e", "r", "n", "e", "t", " ",
      "s", "e", "r", "v", "i", "c", "e">>
S_NoPhoneService ==
    <<"N", "o", " ", "p", "h", "o", "n", "e", " ",
      "s", "e", "r", "v", "i", "c", "e">>
S_MonthToMonth ==
    <<"M", "o", "n", "t", "h", "-", "t", "o", "-", "m", "o", "n", "t", "h">>
S_TwoYear == <<"T", "w", "o", " ", "y", "e", "a", "r">>
S_Weekly == <<"W", "e", "e", "k", "l", "y">>

-----------------------------------------------------------------------------
(* pandas, as far as clean_data and predict_batch use it *)

DigitValue ==
    [c \in {"0", "1", "2", "3", "4", "5", "6", "7", "8", "9"} |->
        CASE c = "0" -> 0 [] c = "1" -> 1 [] c = "2" -> 2 [] c = "3" -> 3
          [] c = "4" -> 4 [] c = "5" -> 5 [] c = "6" -> 6 [] c = "7" -> 7
          [] c = "8" -> 8 [] c = "9" -> 9]

RECURSIVE LStrip(_)
LStrip(s) == IF s # <<>> /\ Head(s) = " " THEN LStrip(Tail(s)) ELSE s

RECURSIVE RStrip(_)
RStrip(s) ==
    IF s # <<>> /\ s[Len(s)] = " " THEN RStrip(SubSeq(s, 1, Len(s) - 1)) ELSE s

IsDigits(s) == s # <<>> /\ \A i \in 1..Len(s) : s[i] \in DOMAIN DigitValue

RECURSIVE Decimal(_)
Decimal(s) ==
    IF s = <<>> THEN 0
    ELSE 10 * Decimal(SubSeq(s, 1, Len(s) - 1)) + DigitValue[s[Len(s)]]

\* pd.to_numeric(x, errors='coerce') on one cell: surrounding blanks are
\* skipped, a run of digits is its decimal value, anything else is NaN.
to_numeric_cell(v) ==
    IF v.t = "num" THEN v
    ELSE IF v.t = "nan" THEN NaN
    ELSE LET body == RStrip(LStrip(v.s))
         IN  IF IsDigits(body) THEN Num(Decimal(body)) ELSE NaN

to_numeric(series) == [i \in DOMAIN series |-> to_numeric_cell(series[i])]

fillna(series, d) ==
    [i \in DOMAIN series |-> IF series[i].t = "nan" THEN Num(d) ELSE series[i]]

replace(series, old, new) ==
    [i \in DOMAIN series |->
        IF series[i].t = "str" /\ series[i].s = old THEN Str(new) ELSE series[i]]

\* A DataFrame: the ordered column names and the rows (column -> cell).
DataFrame(columns, rows) == [columns |-> columns, rows |-> rows]

Range(s) == {s[i] : i \in DOMAIN s}

HasColumn(df, c) == c \in Range(df.columns)

RECURSIVE Without(_, _)
Without(s, c) ==
    IF s = <<>> THEN <<>>
    ELSE IF Head(s) = c THEN Without(Tail(s), c)
    ELSE <<Head(s)>> \o Without(Tail(s), c)

drop(df, c) ==
    DataFrame(Without(df.columns, c),
              [i \in DOMAIN df.rows |->
                  [k \in DOMAIN df.rows[i] \ {c} |-> df.rows[i][k]]])

getitem(df, c) == [i \in DOMAIN df.rows |-> df.rows[i][c]]

setitem(df, c, series) ==
    DataFrame(IF HasColumn(df, c) THEN df.columns ELSE Append(df.columns, c),
              [i \in DOMAIN df.rows |->
                  [k \in DOMAIN df.rows[i] \cup {c} |->
                      IF k = c THEN series[i] ELSE df.rows[i][k]]])

-----------------------------------------------------------------------------
(* utils/data_preprocessing.py *)

\* A call frame of clean_data: `passed` is the caller's table object, `df`
\* the table the local name is bound to, `aliased` whether both are the
\* same object (an assignment to a column of df then shows in `passed`).
Call(df) == [passed |-> df, df |-> df, aliased |-> TRUE]

\* df = df.copy(), written so that a missing copy keeps the alias
FrameCopyMissing(f) == f

\* df = df.copy()
FrameCopy(f) == [f EXCEPT !.aliased = FALSE]

\* if c in df.columns: df = df.drop(columns=[c])
FrameDrop(f, c) ==
    IF HasColumn(f.df, c)
    THEN [f EXCEPT !.df = drop(f.df, c), !.aliased = FALSE]
    ELSE f

\* df[c] = series
FrameAssign(f, c, series) ==
    [f EXCEPT !.df = setitem(f.df, c, series),
              !.passed = IF f.aliased THEN setitem(f.passed, c, series)
                         ELSE f.passed]

\* the coercion with the fill left out
CoerceNoFill(series) == to_numeric(series)

\* pd.to_numeric(df['TotalCharges'], errors='coerce').fillna(0)
Coerce(series) == fillna(to_numeric(series), 0)

FrameTotalCharges(f) ==
    IF HasColumn(f.df, "TotalCharges")
    THEN FrameAssign(f, "TotalCharges", Coerce(getitem(f.df, "TotalCharges")))
    ELSE f

replace_cols ==
    <<"MultipleLines", "OnlineSecurity", "OnlineBackup", "DeviceProtection",
      "TechSupport", "StreamingTV", "StreamingMovies">>

\* .replace('No internet service', 'No') then .replace('No phone service', 'No')
ReplaceSentinels(series) ==
    replace(replace(series, S_NoInternetService, S_No), S_NoPhoneService, S_No)

RECURSIVE FrameReplace(_, _)
FrameReplace(f, cols) ==
    IF cols = <<>> THEN f
    ELSE LET c == Head(cols)
             g == IF HasColumn(f.df, c)
                  THEN FrameAssign(f, c, ReplaceSentinels(getitem(f.df, c)))
                  ELSE f
         IN  FrameReplace(g, Tail(cols))

\* The frame when clean_data returns: .df is the returned table, .passed
\* the caller's table as the call left it.
clean_data_frame(df) ==
    FrameReplace(
        FrameTotalCharges(
            FrameDrop(FrameDrop(FrameCopy(Call(df)), "customerID"), "Churn")),
        replace_cols)

clean_data(df) == clean_data_frame(df).df

-----------------------------------------------------------------------------
(* services/shap_service.py: ranking *)

Abs(x) == IF x < 0 THEN -x ELSE x

Min(a, b) == IF a < b THEN a ELSE b

\* list(zip(a, b)): pairs up to the shorter of the two
zip(a, b) == [i \in 1..Min(Len(a), Len(b)) |-> <<a[i], b[i]>>]

\* One step of list.sort(key=lambda x: abs(x[1]), reverse=True): x goes
\* behind every pair whose key is at least its own (the sort is stable).
RECURSIVE InsertByAbs(_, _)
InsertByAbs(sorted, x) ==
    IF sorted = <<>> THEN <<x>>
    ELSE IF Abs(Head(sorted)[2]) >= Abs(x[2])
         THEN <<Head(sorted)>> \o InsertByAbs(Tail(sorted), x)
         ELSE <<x>> \o sorted

RECURSIVE SortInto(_, _)
SortInto(sorted, rest) ==
    IF rest = <<>> THEN sorted
    ELSE SortInto(InsertByAbs(sorted, Head(rest)), Tail(rest))

\* ascending sort followed by a reversal: equal keys come out backwards
sort_by_abs_reversed(feats) ==
    LET RECURSIVE Rev(_)
        Rev(q) == IF q = <<>> THEN <<>> ELSE Rev(Tail(q)) \o <<Head(q)>>
    IN  SortInto(<<>>, Rev(feats))

\* feats.sort(key=lambda x: abs(x[1]), reverse=True)
sort_by_abs(feats) == SortInto(<<>>, feats)

\* feats[:n] for n >= 0
head(feats, n) == SubSeq(feats, 1, Min(n, Len(feats)))

get_top_features(shap_values, feature_names, top_n) ==
    head(sort_by_abs(zip(feature_names, shap_values)), top_n)

-----------------------------------------------------------------------------
(* The model artifact: a fitted pipeline with the named steps              *)
(* 'preprocessor' (the encoder) and 'classifier'.  Its content comes from  *)
(* training; the services only call it.  An artifact here is               *)
(* [encoder, classifier]: the encoder either keeps one ordinal code per    *)
(* categorical column or expands it into one indicator per fitted level;   *)
(* the classifier is a tree ensemble or a model TreeExplainer rejects.     *)

Ok(v) == [raised |-> "", value |-> v]
Raise(e, msg) == [raised |-> e, message |-> msg]

S_OneYear == <<"O", "n", "e", " ", "y", "e", "a", "r">>

\* The fitted columns, in training order.  `levels` are the categories seen
\* in training (none for a numeric column), `names` the encoded names of
\* the indicators, `effect` the classifier's additive effect of each level.
FittedColumns ==
    << [column |-> "tenure", levels |-> <<>>, names |-> <<>>, effect |-> <<>>],
       [column |-> "TechSupport", levels |-> <<S_No, S_Yes>>,
        names |-> <<"TechSupport_No", "TechSupport_Yes">>,
        effect |-> <<48, -48>>],
       [column |-> "Contract", levels |-> <<S_MonthToMonth, S_OneYear, S_TwoYear>>,
        names |-> <<"Contract_Month-to-month", "Contract_One year",
                    "Contract_Two year">>,
        effect |-> <<120, 0, -120>>],
       [column |-> "MonthlyCharges", levels |-> <<>>, names |-> <<>>,
        effect |-> <<>>],
       [column |-> "TotalCharges", levels |-> <<>>, names |-> <<>>,
        effect |-> <<>>] >>

\* the classifier's expected output, in thousandths
BaseValue == 360

\* the additive effect of a numeric feature, in thousandths
NumEffect(column, x) ==
    CASE column = "tenure" -> IF x <= 12 THEN 120 ELSE -120
      [] column = "MonthlyCharges" -> IF x >= 90 THEN 48 ELSE -48
      [] column = "TotalCharges" -> IF x = 0 THEN 12 ELSE 0
      [] OTHER -> 0

IndexOf(seq, x) == CHOOSE i \in DOMAIN seq : seq[i] = x

RECURSIVE Flatten(_)
Flatten(ss) == IF ss = <<>> THEN <<>> ELSE Head(ss) \o Flatten(Tail(ss))

\* the encoded features of one fitted column: [name, column, levels,
\* effect, level], level 0 for a numeric or an ordinal-coded column
FeaturesOf(fc, encoder) ==
    IF fc.levels = <<>> \/ encoder = "ordinal"
    THEN << [name |-> fc.column, column |-> fc.column, levels |-> fc.levels,
             effect |-> fc.effect, level |-> 0] >>
    ELSE [k \in DOMAIN fc.levels |->
            [name |-> fc.names[k], column |-> fc.column, levels |-> fc.levels,
             effect |-> fc.effect, level |-> k]]

\* the features the classifier sees, in order
EncodedFeatures(m) ==
    Flatten([c \in DOMAIN FittedColumns |-> FeaturesOf(FittedColumns[c], m.encoder)])

EncodedFeatureNames(m) ==
    [j \in DOMAIN EncodedFeatures(m) |-> EncodedFeatures(m)[j].name]

\* whether the encoder can encode this row's cell of a fitted column
Encodable(fc, row) ==
    /\ fc.column \in DOMAIN row
    /\ IF fc.levels = <<>> THEN row[fc.column].t = "num"
       ELSE row[fc.column].t = "str" /\ row[fc.column].s \in Range(fc.levels)

\* the encoded value of feature f for a cell
EncodeCell(f, cell) ==
    IF f.levels = <<>> THEN cell.n
    ELSE IF f.level = 0 THEN IndexOf(f.levels, cell.s) - 1
    ELSE IF f.levels[f.level] = cell.s THEN 1 ELSE 0

EncodeRows(features, rows) ==
    [i \in DOMAIN rows |->
        [j \in DOMAIN features |-> EncodeCell(features[j], rows[i][features[j].column])]]

\* the fitted columns the encoder cannot encode in some row
Unencodable(df) ==
    {c \in DOMAIN FittedColumns :
        \E i \in DOMAIN df.rows : ~Encodable(FittedColumns[c], df.rows[i])}

TransformOrRaise(m, df, bad) ==
    IF bad # {}
    THEN Raise("ValueError", FittedColumns[CHOOSE c \in bad : \A d \in bad : c <= d].column)
    ELSE Ok(EncodeRows(EncodedFeatures(m), df.rows))

\* model.named_steps['preprocessor'].transform(df): the encoded matrix, or
\* ValueError (naming the column) on a missing column, a non-numeric number
\* or an unknown level.
preprocessor_transform(m, df) ==
    IF m = None
    THEN Raise("AttributeError", "'NoneType' object has no attribute 'named_steps'")
    ELSE TransformOrRaise(m, df, Unencodable(df))

\* the contribution of feature f at encoded value v
FeatureEffect(f, v) ==
    IF f.levels = <<>> THEN NumEffect(f.column, v)
    ELSE IF f.level = 0 THEN f.effect[v + 1]
    ELSE v * f.effect[f.level]

\* the contributions of the encoded rows X, one row each
Contributions(features, X) ==
    [i \in DOMAIN X |-> [j \in DOMAIN X[i] |-> FeatureEffect(features[j], X[i][j])]]

RECURSIVE Sum(_)
Sum(q) == IF q = <<>> THEN 0 ELSE Head(q) + Sum(Tail(q))

\* classifier.predict_proba(X)[:, 1], in thousandths
ProbaOf(phi) == [i \in DOMAIN phi |-> BaseValue + Sum(phi[i])]

classifier_proba(m, X) == ProbaOf(Contributions(EncodedFeatures(m), X))

ProbaOrRaise(m, X) == IF X.raised # "" THEN X ELSE Ok(classifier_proba(m, X.value))

\* model.predict_proba(df)[:, 1]
predict_proba(m, df) ==
    IF m = None
    THEN Raise("AttributeError", "'NoneType' object has no attribute 'predict_proba'")
    ELSE ProbaOrRaise(m, preprocessor_transform(m, df))

\* the label is 1 when the probability exceeds 0.5
LabelsOf(probs) == [i \in DOMAIN probs |-> IF probs[i] > 500 THEN 1 ELSE 0]

LabelsOrRaise(m, X) ==
    IF X.raised # "" THEN X ELSE Ok(LabelsOf(classifier_proba(m, X.value)))

\* model.predict(df)
predict(m, df) ==
    IF m = None
    THEN Raise("AttributeError", "'NoneType' object has no attribute 'predict'")
    ELSE LabelsOrRaise(m, preprocessor_transform(m, df))

\* shap.TreeExplainer(classifier).shap_values(X): one row of contributions
\* per row of X; TreeExplainer rejects a classifier that is no tree model.
tree_shap_values(m, X) ==
    IF m.classifier # "LGBMClassifier"
    THEN Raise("InvalidModelError", "Model type not yet supported by TreeExplainer")
    ELSE Ok(Contributions(EncodedFeatures(m), X))

-----------------------------------------------------------------------------
(* services/shap_service.py: attribution *)

\* a call that raised, with the stages that ran up to the failure
Raised(r, did) == [raised |-> r.raised, message |-> r.message, did |-> did]

\* a call that returned
Returned(v, did) == [raised |-> "", value |-> v, did |-> did]

\* explainer.shap_values(X_transformed) when the transform succeeded
ExplainOrRaise(m, X) == IF X.raised # "" THEN X ELSE tree_shap_values(m, X.value)

\* shap_vals.flatten().tolist() paired with the names
ShapAndNames(shap_vals, feature_names) ==
    IF shap_vals.raised # "" THEN shap_vals
    ELSE Ok([shap_vals |-> Flatten(shap_vals.value), feature_names |-> feature_names])

\* feature_names = list(preprocessed_data.columns)
calculate_shap_values(m, preprocessed_data) ==
    ShapAndNames(ExplainOrRaise(m, preprocessor_transform(m, preprocessed_data)),
                 preprocessed_data.columns)

\* top_features[:10]
TopDrivers == 10

\* np.mean(np.abs(shap_vals), axis=0); the effects are multiples of 12, so
\* the mean over up to four rows is a whole number of thousandths
mean_abs(shap_vals) ==
    [j \in DOMAIN shap_vals[1] |->
        Sum([i \in DOMAIN shap_vals |-> Abs(shap_vals[i][j])]) \div Len(shap_vals)]

Aggregate(feature_names, mean_shap) ==
    [top_features |-> head(sort_by_abs(zip(feature_names, mean_shap)), TopDrivers),
     mean_shap_values |-> mean_shap,
     feature_names |-> feature_names]

AggregateOrRaise(shap_vals, feature_names) ==
    IF shap_vals.raised # "" THEN shap_vals
    ELSE Ok(Aggregate(feature_names, mean_abs(shap_vals.value)))

calculate_batch_shap_aggregate(m, high_risk_data) ==
    IF high_risk_data.rows = <<>> THEN Ok(None)
    ELSE AggregateOrRaise(ExplainOrRaise(m, preprocessor_transform(m, high_risk_data)),
                          high_risk_data.columns)

-----------------------------------------------------------------------------
(* services/prediction_service.py *)

\* the fields of CustomerProfile that are modelled, in declaration order
ProfileFields ==
    <<"tenure", "TechSupport", "Contract", "MonthlyCharges", "TotalCharges">>

RECURSIVE Select(_, _)
Select(seq, keep) ==
    IF seq = <<>> THEN <<>>
    ELSE (IF Head(seq) \in keep THEN <<Head(seq)>> ELSE <<>>)
            \o Select(Tail(seq), keep)

\* pd.DataFrame([customer_data])
FrameOfRecord(customer_data) ==
    DataFrame(Select(ProfileFields, DOMAIN customer_data), <<customer_data>>)

\* the dict predict_single returns, or the exception that left it
SingleResult(pred, prob, shap) ==
    IF pred.raised # "" THEN Raised(pred, <<"clean_data", "predict">>)
    ELSE IF prob.raised # ""
         THEN Raised(prob, <<"clean_data", "predict", "predict_proba">>)
    ELSE IF shap.raised # ""
         THEN Raised(shap, <<"clean_data", "predict", "predict_proba",
                             "calculate_shap_values">>)
    ELSE Returned([prediction |-> pred.value[1],
                   churn_probability |-> prob.value[1],
                   shap_values |-> shap.value.shap_vals,
                   feature_names |-> shap.value.feature_names],
                  <<"clean_data", "predict", "predict_proba",
                    "calculate_shap_values">>)

\* predict_single from df_clean on
PredictClean(m, df_clean) ==
    SingleResult(predict(m, df_clean), predict_proba(m, df_clean),
                 calculate_shap_values(m, df_clean))

predict_single(m, customer_data) ==
    PredictClean(m, clean_data(FrameOfRecord(customer_data)))

\* the business threshold 0.6, in thousandths
RiskThreshold == 600

High == Str(<<"H", "i", "g", "h">>)
Low == Str(<<"L", "o", "w">>)

\* the tier with >= for >
risk_level_inclusive(p) == IF p >= RiskThreshold THEN High ELSE Low

\* np.where(probs > 0.6, 'High', 'Low'), one element
risk_level(p) == IF p > RiskThreshold THEN High ELSE Low

\* df[mask]
RECURSIVE RowsWhere(_, _)
RowsWhere(rows, mask) ==
    IF rows = <<>> THEN <<>>
    ELSE (IF Head(mask) THEN <<Head(rows)>> ELSE <<>>)
            \o RowsWhere(Tail(rows), Tail(mask))

mask_rows(df, mask) == DataFrame(df.columns, RowsWhere(df.rows, mask))

\* probs > 0.6
high_risk_mask(probs) == [i \in DOMAIN probs |-> probs[i] > RiskThreshold]

\* mask.any()
any(mask) == \E i \in DOMAIN mask : mask[i]

\* results_df = df.copy() with the two columns attached
Attach(df, probs) ==
    setitem(setitem(df, "Churn_Probability", [i \in DOMAIN probs |-> Num(probs[i])]),
            "Risk_Level", [i \in DOMAIN probs |-> risk_level(probs[i])])

\* the aggregate over df_clean[high_risk_mask], when asked for and any
HighRiskAggregate(m, df_clean, mask, include_shap) ==
    IF include_shap /\ any(mask)
    THEN calculate_batch_shap_aggregate(m, mask_rows(df_clean, mask))
    ELSE Ok(None)

BatchStages(mask, include_shap) ==
    <<"clean_data", "predict_proba", "predict">>
        \o (IF include_shap /\ any(mask)
            THEN <<"calculate_batch_shap_aggregate">> ELSE <<>>)

BatchReturn(results_df, df_clean, probs, shap_aggregate, did) ==
    IF shap_aggregate.raised # "" THEN Raised(shap_aggregate, did)
    ELSE Returned([results_df |-> results_df, df_clean |-> df_clean,
                   probs |-> probs, shap_aggregate |-> shap_aggregate.value], did)

\* predict_batch once both predictions returned
BatchAttach(m, frame, probs, mask, include_shap) ==
    BatchReturn(Attach(frame.passed, probs), frame.df, probs,
                HighRiskAggregate(m, frame.df, mask, include_shap),
                BatchStages(mask, include_shap))

BatchScored(m, frame, probs, preds, include_shap) ==
    IF probs.raised # "" THEN Raised(probs, <<"clean_data", "predict_proba">>)
    ELSE IF preds.raised # ""
         THEN Raised(preds, <<"clean_data", "predict_proba", "predict">>)
    ELSE BatchAttach(m, frame, probs.value, high_risk_mask(probs.value),
                     include_shap)

\* predict_batch from df_clean on; frame.passed is df after clean_data(df)
BatchClean(m, frame, include_shap) ==
    BatchScored(m, frame, predict_proba(m, frame.df), predict(m, frame.df),
                include_shap)

predict_batch(m, df, include_shap) ==
    BatchClean(m, clean_data_frame(df), include_shap)

-----------------------------------------------------------------------------
(* services/batch_service.py *)

Sentinel == "Great news! Very few high-risk customers detected."

\* the characters of the modelled texts, in code-point order
CharOrder ==
    <<" ", "-", "0", "1", "2", "3", "4", "5", "6", "7", "8", "9",
      "A", "B", "C", "D", "E", "F", "G", "H", "I", "J", "K", "L", "M",
      "N", "O", "P", "Q", "R", "S", "T", "U", "V", "W", "X", "Y", "Z",
      "a", "b", "c", "d", "e", "f", "g", "h", "i", "j", "k", "l", "m",
      "n", "o", "p", "q", "r", "s", "t", "u", "v", "w", "x", "y", "z">>

\* a < b for two strings
RECURSIVE TextLess(_, _)
TextLess(a, b) ==
    IF b = <<>> THEN FALSE
    ELSE IF a = <<>> THEN TRUE
    ELSE IF Head(a) = Head(b) THEN TextLess(Tail(a), Tail(b))
    ELSE IndexOf(CharOrder, Head(a)) < IndexOf(CharOrder, Head(b))

Texts(series) == {series[i].s : i \in {k \in DOMAIN series : series[k].t = "str"}}

Count(series, x) ==
    Cardinality({i \in DOMAIN series : series[i].t = "str" /\ series[i].s = x})

MostFrequent(series, texts) ==
    {x \in texts : \A y \in texts : Count(series, y) <= Count(series, x)}

Least(top) == CHOOSE x \in top : \A y \in top \ {x} : TextLess(x, y)

\* series.mode(): the most frequent texts in order; <<>> when there is none,
\* else [0] is the least of the most frequent
mode(series) ==
    IF Texts(series) = {} THEN <<>>
    ELSE << Least(MostFrequent(series, Texts(series))) >>

\* series.mean(), as the pair <<sum, count>>
mean(series) == << Sum([i \in DOMAIN series |-> series[i].n]), Len(series) >>

pattern_cols == <<"Contract", "InternetService", "PaymentMethod", "TechSupport">>

\* the first five of the top features
SummaryDrivers == 5

\* df_clean[probs > 0.6] taken as every row
high_risk_rows_all(df_clean, probs) == df_clean

\* df_clean[probs > 0.6]
high_risk_rows(df_clean, probs) ==
    mask_rows(df_clean, [i \in DOMAIN probs |-> probs[i] > RiskThreshold])

\* the columns of pattern_cols present with a mode
PatternCols(high_risk_df) ==
    Select(pattern_cols,
           {c \in Range(high_risk_df.columns) : mode(getitem(high_risk_df, c)) # <<>>})

CatSummary(high_risk_df, cols) ==
    [k \in DOMAIN cols |-> <<cols[k], mode(getitem(high_risk_df, cols[k]))[1]>>]

MeanOrZero(high_risk_df, col) ==
    IF HasColumn(high_risk_df, col) THEN mean(getitem(high_risk_df, col)) ELSE <<0, 1>>

Drivers(shap_aggregate) ==
    IF shap_aggregate # None /\ shap_aggregate.top_features # <<>>
    THEN head(shap_aggregate.top_features, SummaryDrivers)
    ELSE <<>>

\* The summary text, as the values it is formatted from.  The rate is the
\* pair <<100 * high, total>>, a mean the pair <<sum, count>>.
Summary(high_risk_df, total_customers, shap_aggregate) ==
    IF high_risk_df.rows = <<>> THEN [text |-> Sentinel]
    ELSE [text |-> "summary_stats",
          high_risk |-> Len(high_risk_df.rows),
          churn_rate |-> IF total_customers > 0
                         THEN <<100 * Len(high_risk_df.rows), total_customers>>
                         ELSE <<0, 1>>,
          avg_tenure |-> MeanOrZero(high_risk_df, "tenure"),
          avg_charge |-> MeanOrZero(high_risk_df, "MonthlyCharges"),
          patterns |-> CatSummary(high_risk_df, PatternCols(high_risk_df)),
          drivers |-> Drivers(shap_aggregate)]

analyze_high_risk_group(df_clean, probs, shap_aggregate) ==
    Summary(high_risk_rows(df_clean, probs), Len(df_clean.rows), shap_aggregate)

-----------------------------------------------------------------------------
(* services/ai_service.py and routes.py *)

\* extract_context('data/policies.txt'), read once at start-up
context == "policies"

\* The text the generative service returns for a prompt: a function of the
\* prompt, not interpreted further.
get_gemini_explanation(prompt) == [model |-> "gemini-3-flash-preview", prompt |-> prompt]

generate_shap_explanation_prompt(churn_probability, top_features, ctx) ==
    [churn_risk |-> churn_probability,
     risk_level |-> IF churn_probability > 500 THEN "High" ELSE "Low",
     context |-> ctx,
     top_drivers |-> top_features]

generate_batch_strategy_prompt(total_customers, summary_stats, ctx) ==
    [total_customers |-> total_customers, summary_stats |-> summary_stats,
     context |-> ctx]

HTTPException(status_code, detail) == [status |-> status_code, detail |-> detail]

OkResponse(body) == [status |-> 200, body |-> body]

\* latest_prediction_storage = {}
EmptyDict == <<>>

\* the explainability endpoint's top_n
ExplainTopN == 5

\* the guard left out
model_loaded_unchecked(m) == TRUE

\* `if not model` is false
model_loaded(m) == m # None

\* HTTPException(status_code=500, detail="Model not loaded")
ModelNotLoaded == HTTPException(500, "Model not loaded")

\* What a handler's run comes to: the response, the global as it leaves it,
\* the pipeline stages it ran, and the exception that ended it ("" when it
\* returned, "HTTPException" when it raised one itself).
Outcome(response, storage, did, cause) ==
    [response |-> response, storage |-> storage, did |-> did, cause |-> cause]

\* the response built from the stored prediction's attribution when there
\* is one, instead of from this request's result
PredictRespondStale(storage, result) ==
    IF result.raised # ""
    THEN Outcome(HTTPException(500, result.message), storage, result.did,
                 result.raised)
    ELSE Outcome(OkResponse(IF storage = EmptyDict THEN result.value
                            ELSE [result.value EXCEPT
                                     !.shap_values = storage.shap_values]),
                 [churn_probability |-> result.value.churn_probability,
                  shap_values |-> result.value.shap_values,
                  feature_names |-> result.value.feature_names],
                 result.did, "")

\* the stored dict updated key by key, attribution left from the previous
\* prediction
PredictRespondTorn(storage, result) ==
    IF result.raised # ""
    THEN Outcome(HTTPException(500, result.message), storage, result.did,
                 result.raised)
    ELSE Outcome(OkResponse(result.value),
                 IF storage = EmptyDict
                 THEN [churn_probability |-> result.value.churn_probability,
                       shap_values |-> result.value.shap_values,
                       feature_names |-> result.value.feature_names]
                 ELSE [storage EXCEPT
                          !.churn_probability = result.value.churn_probability],
                 result.did, "")

\* the try block of /predict after the service call
PredictRespond(storage, result) ==
    IF result.raised # ""
    THEN Outcome(HTTPException(500, result.message), storage, result.did,
                 result.raised)
    ELSE Outcome(OkResponse(result.value),
                 [churn_probability |-> result.value.churn_probability,
                  shap_values |-> result.value.shap_values,
                  feature_names |-> result.value.feature_names],
                 result.did, "")

\* POST /predict
predict_single_endpoint(m, storage, customer) ==
    IF ~model_loaded(m) THEN Outcome(ModelNotLoaded, storage, <<>>, "HTTPException")
    ELSE PredictRespond(storage, predict_single(m, customer))

\* the dtype read_csv gives a column: numeric when every cell parses
NumericColumn(csv, c) ==
    \A i \in DOMAIN csv.rows : to_numeric_cell(csv.rows[i][c]).t = "num"

ReadCell(cell, numeric) ==
    IF numeric THEN to_numeric_cell(cell)
    ELSE IF cell = Str(<<>>) THEN NaN
    ELSE cell

\* pd.read_csv: a column whose every cell parses is numeric, any other
\* column keeps its texts; an empty field is NaN.
read_csv(csv) ==
    DataFrame(csv.columns,
              [i \in DOMAIN csv.rows |->
                  [c \in DOMAIN csv.rows[i] |->
                      ReadCell(csv.rows[i][c], NumericColumn(csv, c))]])

\* results_df.replace({np.nan: None}).to_dict(orient="records")
to_records(df) ==
    [i \in DOMAIN df.rows |->
        [c \in DOMAIN df.rows[i] |->
            IF df.rows[i][c].t = "nan" THEN None ELSE df.rows[i][c]]]

\* the report for a scored batch
StrategyReport(total_customers, b) ==
    get_gemini_explanation(
        generate_batch_strategy_prompt(
            total_customers,
            analyze_high_risk_group(b.df_clean, b.probs, b.shap_aggregate),
            context))

\* the try block of /predict_batch_analysis after predict_batch
BatchRespond(storage, total_customers, batch) ==
    IF batch.raised # ""
    THEN Outcome(HTTPException(500, batch.message), storage, batch.did, batch.raised)
    ELSE Outcome(OkResponse([strategy_report |->
                                 StrategyReport(total_customers, batch.value),
                             data |-> to_records(batch.value.results_df)]),
                 storage, batch.did \o <<"analyze_high_risk_group">>, "")

BatchOfFrame(m, storage, df) ==
    BatchRespond(storage, Len(df.rows), predict_batch(m, df, TRUE))

\* POST /predict_batch_analysis, from the file's content on
batch_analysis(m, storage, csv) == BatchOfFrame(m, storage, read_csv(csv))

\* the try block of /explain_shap
Explain(data) ==
    OkResponse([explanation |->
        get_gemini_explanation(
            generate_shap_explanation_prompt(
                data.churn_probability,
                get_top_features(data.shap_values, data.feature_names, ExplainTopN),
                context))])

\* POST /explain_shap
explain_shap_endpoint(storage) ==
    IF storage = EmptyDict
    THEN Outcome(HTTPException(400, "No prediction found. Run /predict first."),
                 storage, <<>>, "HTTPException")
    ELSE Outcome(Explain(storage), storage, <<"get_top_features">>, "")

-----------------------------------------------------------------------------
(* clean_data as a function: SpecClean draws a table and calls it twice *)

MaxCleanRows == 1

TotalChargesTexts ==
    { <<>>, <<" ">>, <<"8">>, <<"8", "4", "0">>, <<" ", "9", "5", " ">>,
      <<"a", "b", "c">>, <<"8", " ", "4">>, <<"1", "2", "x">> }

TotalChargesCells ==
    {Str(s) : s \in TotalChargesTexts}
        \cup {Num(0), Num(840), NaN, Str(S_NoInternetService)}

AddOnCells ==
    {Str(S_Yes), Str(S_No), Str(S_NoInternetService), Str(S_NoPhoneService), NaN}

\* A table with `tenure`, and any of customerID, Churn, TotalCharges and one
\* add-on column.
CleanTable(n, id, churn, tc, charges, addon, cells) ==
    LET columns ==
            (IF id THEN <<"customerID">> ELSE <<>>)
                \o <<"tenure">>
                \o (IF addon # "" THEN <<addon>> ELSE <<>>)
                \o (IF tc THEN <<"TotalCharges">> ELSE <<>>)
                \o (IF churn THEN <<"Churn">> ELSE <<>>)
        cell(i, k) ==
            CASE k = "customerID" -> Str(<<"7", "5", "9", "0">>)
              [] k = "tenure" -> Num(12)
              [] k = "TotalCharges" -> charges[i]
              [] k = "Churn" -> Str(S_Yes)
              [] OTHER -> cells[i]
    IN  DataFrame(columns,
                  [i \in 1..n |-> [k \in Range(columns) |-> cell(i, k)]])

InitClean ==
    /\ model = None
    /\ latest_prediction_storage = <<>>
    /\ cl = <<>>
    /\ \E n \in 0..MaxCleanRows, id \in BOOLEAN, churn \in BOOLEAN, tc \in BOOLEAN,
          addon \in {""} \cup Range(replace_cols) :
          \E charges \in IF tc THEN [1..n -> TotalChargesCells]
                                ELSE {[i \in 1..n |-> NaN]},
             cells \in IF addon # "" THEN [1..n -> AddOnCells]
                                      ELSE {[i \in 1..n |-> NaN]} :
              args = [df |-> CleanTable(n, id, churn, tc, charges, addon, cells)]
    /\ ret = [calls |-> 0]

\* out = clean_data(df)
CleanOnce ==
    /\ ret.calls = 0
    /\ LET f == clean_data_frame(args.df)
       IN  ret' = [calls |-> 1, passed |-> f.passed, once |-> f.df]
    /\ UNCHANGED <<model, latest_prediction_storage, cl, args>>

\* out2 = clean_data(out)
CleanTwice ==
    /\ ret.calls = 1
    /\ LET f == clean_data_frame(ret.once)
       IN  ret' = [calls |-> 2, passed |-> ret.passed, once |-> f.passed,
                   twice |-> f.df]
    /\ UNCHANGED <<model, latest_prediction_storage, cl, args>>

NextClean == CleanOnce \/ CleanTwice

SpecClean == InitClean /\ [][NextClean]_vars

\* C1: clean_data(clean_data(x)) = clean_data(x) for every table x, and a
\* call leaves the table it was given as it was.
C1_Idempotent ==
    /\ ret.calls >= 1 => ret.passed = args.df
    /\ ret.calls = 2 => ret.twice = ret.once /\ ret.once = clean_data(args.df)

\* a table holding a sentinel, a blank TotalCharges and the dropped columns
\* has been normalised twice
C1_Witness ==
    /\ ret.calls = 2
    /\ args.df.rows # <<>>
    /\ HasColumn(args.df, "customerID")
    /\ HasColumn(args.df, "TechSupport")
    /\ HasColumn(args.df, "TotalCharges")
    /\ args.df.rows[1]["TechSupport"] = Str(S_NoInternetService)
    /\ args.df.rows[1]["TotalCharges"] = Str(<<" ">>)
    /\ ret.once # args.df

\* C10: after normalisation every TotalCharges cell is a number: the number
\* the input parses to, 0 when it does not parse; an absent column stays
\* absent.
C10_TotalChargesNumeric ==
    ret.calls >= 1 =>
        IF HasColumn(args.df, "TotalCharges")
        THEN /\ HasColumn(ret.once, "TotalCharges")
             /\ \A i \in DOMAIN args.df.rows :
                  LET in == args.df.rows[i]["TotalCharges"]
                      out == ret.once.rows[i]["TotalCharges"]
                      text == IF in.t = "str" THEN RStrip(LStrip(in.s)) ELSE <<>>
                  IN  /\ out.t = "num"
                      /\ in.t = "num" => out = in
                      /\ in.t = "nan" => out = Num(0)
                      /\ in.t = "str" /\ IsDigits(text) => out = Num(Decimal(text))
                      /\ in.t = "str" /\ ~IsDigits(text) => out = Num(0)
                      /\ in = Str(<<" ">>) => out = Num(0)
                      /\ in = Str(<<"8", "4", "0">>) => out = Num(840)
        ELSE ~HasColumn(ret.once, "TotalCharges")

\* a blank and a parsable TotalCharges have been normalised, and so has a
\* table without the column
C10_Witness ==
    /\ ret.calls >= 1
    /\ HasColumn(args.df, "TotalCharges")
    /\ args.df.rows # <<>>
    /\ args.df.rows[1]["TotalCharges"] = Str(<<" ">>)
    /\ ret.once.rows[1]["TotalCharges"] = Num(0)

-----------------------------------------------------------------------------
(* get_top_features as a function: SpecTop draws the lists and calls it *)

MaxFeat == 3

DefaultTopN == 5

ShapCells == {-200, -50, 0, 50, 200}

Names == <<"tenure", "TechSupport", "Contract", "MonthlyCharges", "TotalCharges">>

InitTop ==
    /\ model = None
    /\ latest_prediction_storage = <<>>
    /\ cl = <<>>
    /\ \E n \in 0..MaxFeat, k \in 0..MaxFeat,
          top_n \in (0..(MaxFeat + 1)) \cup {DefaultTopN} :
          \E values \in [1..n -> ShapCells] :
              args = [shap_values |-> values, feature_names |-> SubSeq(Names, 1, k),
                      top_n |-> top_n]
    /\ ret = [calls |-> 0]

TopFeatures ==
    /\ ret.calls = 0
    /\ ret' = [calls |-> 1,
               top |-> get_top_features(args.shap_values, args.feature_names,
                                        args.top_n)]
    /\ UNCHANGED <<model, latest_prediction_storage, cl, args>>

NextTop == TopFeatures

SpecTop == InitTop /\ [][NextTop]_vars

\* C8: get_top_features returns min(top_n, number of pairs) pairs; the pair
\* of index j stands at position 1 + the number of pairs that have a larger
\* magnitude, or the same magnitude and a smaller index; every pair is an
\* input pair with its sign kept.
C8_TopFeatures ==
    ret.calls = 1 =>
        LET v == args.shap_values
            nm == args.feature_names
            n == Min(Len(v), Len(nm))
            rank(j) == 1 + Cardinality({i \in 1..n :
                            \/ Abs(v[i]) > Abs(v[j])
                            \/ Abs(v[i]) = Abs(v[j]) /\ i < j})
        IN  /\ Len(ret.top) = Min(args.top_n, n)
            /\ \A j \in 1..n :
                  rank(j) <= Len(ret.top) => ret.top[rank(j)] = <<nm[j], v[j]>>

\* a ranking was cut to top_n and had to order two pairs of equal magnitude
\* and opposite sign
C8_Witness ==
    /\ ret.calls = 1
    /\ Len(args.shap_values) = 3
    /\ Len(args.feature_names) = 3
    /\ args.top_n = 2
    /\ args.shap_values = <<50, -200, 200>>
    /\ ret.top = << <<"TechSupport", -200>>, <<"Contract", 200>> >>

-----------------------------------------------------------------------------
(* Inputs of the scoring services *)

Customer(tenure, tech, contract, monthly, total) ==
    [f \in Range(ProfileFields) |->
        CASE f = "tenure" -> Num(tenure)
          [] f = "TechSupport" -> Str(tech)
          [] f = "Contract" -> Str(contract)
          [] f = "MonthlyCharges" -> Num(monthly)
          [] f = "TotalCharges" -> Str(total)]

\* scored 0.600: on the threshold
Edge == Customer(1, S_No, S_MonthToMonth, 70, <<"8", "4", "0">>)
\* scored 0.612 once the sentinel and the blank total are normalised
Blank == Customer(1, S_NoInternetService, S_MonthToMonth, 70, <<" ">>)
\* scored 0.024
Loyal == Customer(60, S_Yes, S_TwoYear, 70, <<"8", "4", "0">>)
\* scored 0.696
Risky == Customer(1, S_No, S_MonthToMonth, 95, <<"9", "5">>)
\* a contract the encoder was not fitted on
Odd == Customer(12, S_Yes, S_Weekly, 70, <<"8", "4", "0">>)

Customers == {Edge, Blank, Loyal, Risky, Odd}

Artifacts ==
    [encoder : {"ordinal", "onehot"},
     classifier : {"LGBMClassifier", "LogisticRegression"}]

\* the CSV read into a table; a labelled export also carries customerID
\* and Churn
Upload(customers, labelled) ==
    IF labelled
    THEN DataFrame(<<"customerID">> \o ProfileFields \o <<"Churn">>,
                   [i \in DOMAIN customers |->
                       [f \in Range(ProfileFields) \cup {"customerID", "Churn"} |->
                           CASE f = "customerID" -> Num(7590 + i)
                             [] f = "Churn" -> Str(S_No)
                             [] OTHER -> customers[i][f]]])
    ELSE DataFrame(ProfileFields, customers)

-----------------------------------------------------------------------------
(* The server: the handlers of routes.py run for the requests of clients   *)

Clients == {"a", "b"}

MaxUpload == 1

DigitChar == <<"0", "1", "2", "3", "4", "5", "6", "7", "8", "9">>

RECURSIVE ToText(_)
ToText(n) ==
    IF n < 10 THEN <<DigitChar[n + 1]>>
    ELSE ToText(n \div 10) \o <<DigitChar[(n % 10) + 1]>>

\* the uploaded file: every field is text
Csv(customers) ==
    DataFrame(ProfileFields,
              [i \in DOMAIN customers |->
                  [f \in Range(ProfileFields) |->
                      IF customers[i][f].t = "num"
                      THEN Str(ToText(customers[i][f].n))
                      ELSE customers[i][f]]])

NoRequest == [t |-> "none"]

Waiting == [pc |-> "idle", kind |-> "", request |-> NoRequest,
            response |-> NoRequest, did |-> <<>>, cause |-> "",
            saw |-> EmptyDict]

\* load_model returns the artifact, or None when loading fails
Init ==
    /\ model \in {None} \cup Artifacts
    /\ latest_prediction_storage = EmptyDict
    /\ cl = [c \in Clients |-> Waiting]
    /\ args = <<>>
    /\ ret = <<>>

\* the handler's run o ends the request of client c
Served(c, kind, request, o) ==
    /\ cl' = [cl EXCEPT ![c] = [pc |-> "done", kind |-> kind, request |-> request,
                                response |-> o.response, did |-> o.did,
                                cause |-> o.cause,
                                saw |-> IF kind = "explain"
                                        THEN latest_prediction_storage
                                        ELSE EmptyDict]]
    /\ latest_prediction_storage' = o.storage

\* POST /predict: the handler has no await and runs in one step
Predict(c) ==
    /\ cl[c].pc # "reading"
    /\ \E customer \in Customers :
          Served(c, "predict", customer,
                 predict_single_endpoint(model, latest_prediction_storage, customer))
    /\ UNCHANGED <<model, args, ret>>

\* POST /predict_batch_analysis up to `await file.read()`
BatchBegin(c) ==
    /\ cl[c].pc # "reading"
    /\ \E n \in 0..MaxUpload :
          \E customers \in [1..n -> Customers] :
              IF ~model_loaded(model)
              THEN Served(c, "batch", Csv(customers),
                          Outcome(ModelNotLoaded, latest_prediction_storage, <<>>,
                                  "HTTPException"))
              ELSE /\ cl' = [cl EXCEPT ![c] = [Waiting EXCEPT !.pc = "reading",
                                                              !.kind = "batch",
                                                              !.request = Csv(customers)]]
                   /\ UNCHANGED latest_prediction_storage
    /\ UNCHANGED <<model, args, ret>>

\* POST /predict_batch_analysis from the file's content to the response
BatchScore(c) ==
    /\ cl[c].pc = "reading"
    /\ Served(c, "batch", cl[c].request,
              batch_analysis(model, latest_prediction_storage, cl[c].request))
    /\ UNCHANGED <<model, args, ret>>

\* POST /explain_shap
ExplainShap(c) ==
    /\ cl[c].pc # "reading"
    /\ Served(c, "explain", NoRequest, explain_shap_endpoint(latest_prediction_storage))
    /\ UNCHANGED <<model, args, ret>>

Next == \E c \in Clients : Predict(c) \/ BatchBegin(c) \/ BatchScore(c) \/ ExplainShap(c)

Spec == Init /\ [][Next]_vars

Done(c) == cl[c].pc = "done"

Scoring(c) == Done(c) /\ cl[c].kind \in {"predict", "batch"}

\* C2: every successful /predict returns as many shap_values as
\* feature_names, one per encoded feature, and the names are those of the
\* encoded feature space.
C2_EncodedNames ==
    \A c \in Clients :
        Done(c) /\ cl[c].kind = "predict" /\ cl[c].response.status = 200 =>
            /\ Len(cl[c].response.body.shap_values)
                  = Len(cl[c].response.body.feature_names)
            /\ Len(cl[c].response.body.shap_values) = Len(EncodedFeatures(model))
            /\ cl[c].response.body.feature_names = EncodedFeatureNames(model)

\* C3 as stated: the response to a request depends only on its own input
\* and the frozen model, so two requests to the same endpoint with the same
\* input get the same response whatever ran before or between them.
C3_NoRequestSpanningState ==
    \A c, d \in Clients :
        /\ Done(c) /\ Done(d)
        /\ cl[c].kind = cl[d].kind
        /\ cl[c].request = cl[d].request
        => cl[c].response = cl[d].response

\* C3 amended: two /predict or two /predict_batch_analysis requests with
\* the same input get the same response whatever ran before or between
\* them; two /explain_shap requests get the same response when the stored
\* latest prediction they read is the same.
C3_ScoringIndependent ==
    \A c, d \in Clients :
        /\ Done(c) /\ Done(d)
        /\ cl[c].kind = cl[d].kind
        /\ cl[c].request = cl[d].request
        /\ cl[c].kind = "explain" => cl[c].saw = cl[d].saw
        => cl[c].response = cl[d].response

\* two clients were answered for the same upload while a prediction for
\* another record was stored
C3_Witness ==
    /\ Done("a") /\ Done("b")
    /\ cl["a"].kind = "batch" /\ cl["b"].kind = "batch"
    /\ cl["a"].request = Csv(<<Risky>>) /\ cl["b"].request = Csv(<<Risky>>)
    /\ cl["a"].response.status = 200
    /\ cl["b"].response.status = 200
    /\ latest_prediction_storage # EmptyDict
    /\ latest_prediction_storage.churn_probability = 24

\* C5: two failing scoring requests whose failures are of different kinds
\* (model unavailable, schema mismatch, explainer unavailable) reach the
\* caller as errors of different types.
C5_TypedErrors ==
    \A c, d \in Clients :
        LET kind(x) == CASE cl[x].cause = "HTTPException" -> "ModelUnavailable"
                         [] cl[x].cause = "ValueError" -> "SchemaMismatch"
                         [] cl[x].cause = "InvalidModelError" -> "ExplainerUnavailable"
                         [] OTHER -> cl[x].cause
        IN  /\ Scoring(c) /\ Scoring(d)
            /\ cl[c].cause # "" /\ cl[d].cause # ""
            /\ kind(c) # kind(d)
            => cl[c].response.status # cl[d].response.status

\* C6: when load_model returned None, every answered scoring request got
\* the "Model not loaded" error with no stage of the pipeline run, no
\* upload is ever read, and the stored latest prediction stays as it was at
\* start-up.
C6_ModelUnavailable ==
    model = None =>
        /\ \A c \in Clients :
              /\ cl[c].pc # "reading"
              /\ Scoring(c) => /\ cl[c].response = ModelNotLoaded
                               /\ cl[c].did = <<>>
                               /\ cl[c].cause = "HTTPException"
        /\ latest_prediction_storage = EmptyDict

\* without a model, a /predict and a /predict_batch_analysis were refused
C6_Witness ==
    /\ model = None
    /\ Scoring("a") /\ cl["a"].kind = "predict"
    /\ Scoring("b") /\ cl["b"].kind = "batch"
    /\ cl["b"].request.rows # <<>>
    /\ cl["a"].response = ModelNotLoaded
    /\ cl["b"].response = ModelNotLoaded

\* C11: /explain_shap answers 400 exactly when the stored latest prediction
\* is empty, which is so exactly as long as no /predict has succeeded;
\* otherwise it ranks the probability, shap_values and feature_names it
\* read, which are those of one successful /predict as a whole.  A step
\* changes the stored dict only by a successful /predict, which stores its
\* own three fields together; a failed /predict, a batch request and
\* /explain_shap leave it as it was.
C11_LatestPrediction ==
    [][LET stored(body) == [churn_probability |-> body.churn_probability,
                            shap_values |-> body.shap_values,
                            feature_names |-> body.feature_names]
           served(c) == cl'[c] # cl[c] /\ cl'[c].pc = "done"
           succeeded(c) == /\ cl'[c].pc = "done" /\ cl'[c].kind = "predict"
                           /\ cl'[c].response.status = 200
       IN  /\ \A c \in Clients :
                 served(c) =>
                     CASE cl'[c].kind = "predict" ->
                            IF cl'[c].response.status = 200
                            THEN latest_prediction_storage'
                                    = stored(cl'[c].response.body)
                            ELSE UNCHANGED latest_prediction_storage
                       [] cl'[c].kind = "batch" ->
                            UNCHANGED latest_prediction_storage
                       [] cl'[c].kind = "explain" ->
                            /\ UNCHANGED latest_prediction_storage
                            /\ cl'[c].saw = latest_prediction_storage
                            /\ cl'[c].response.status = 400
                                  <=> latest_prediction_storage = EmptyDict
                            /\ latest_prediction_storage # EmptyDict =>
                                  cl'[c].response = OkResponse([explanation |->
                                    get_gemini_explanation(
                                      generate_shap_explanation_prompt(
                                        latest_prediction_storage.churn_probability,
                                        get_top_features(
                                          latest_prediction_storage.shap_values,
                                          latest_prediction_storage.feature_names,
                                          5),
                                        context))])
           /\ latest_prediction_storage' # latest_prediction_storage =>
                 \E c \in Clients :
                     /\ succeeded(c)
                     /\ latest_prediction_storage' = stored(cl'[c].response.body)
           /\ latest_prediction_storage' = EmptyDict =>
                 \A c \in Clients : ~succeeded(c)
      ]_vars

\* an explanation was served from the stored prediction of one record
\* after a later /predict had failed
C11_Witness ==
    /\ Done("a") /\ cl["a"].kind = "explain"
    /\ cl["a"].response.status = 200
    /\ cl["a"].saw # EmptyDict
    /\ cl["a"].saw.churn_probability = 696
    /\ Done("b") /\ cl["b"].kind = "predict"
    /\ cl["b"].response.status = 500
    /\ latest_prediction_storage = cl["a"].saw

-----------------------------------------------------------------------------
(* predict_batch and analyze_high_risk_group as functions: SpecBatch draws *)
(* an artifact and a table and calls them                                  *)

MaxRows == 3

InitBatch ==
    /\ model \in Artifacts
    /\ latest_prediction_storage = <<>>
    /\ cl = <<>>
    /\ \E n \in 0..MaxRows, labelled \in BOOLEAN, include_shap \in BOOLEAN :
          \E customers \in [1..n -> Customers] :
              args = [df |-> Upload(customers, labelled),
                      include_shap |-> include_shap]
    /\ ret = [calls |-> 0]

PredictBatch ==
    /\ ret.calls = 0
    /\ ret' = [calls |-> 1, out |-> predict_batch(model, args.df, args.include_shap)]
    /\ UNCHANGED <<model, latest_prediction_storage, cl, args>>

AnalyzeHighRiskGroup ==
    /\ ret.calls = 1
    /\ ret.out.raised = ""
    /\ ret' = [calls |-> 2, out |-> ret.out,
               summary |-> analyze_high_risk_group(ret.out.value.df_clean,
                                                   ret.out.value.probs,
                                                   ret.out.value.shap_aggregate)]
    /\ UNCHANGED <<model, latest_prediction_storage, cl, args>>

\* predict_single called on one record
PredictSingle ==
    /\ ret.calls = 0
    /\ \E customer \in Customers :
          ret' = [calls |-> 3, single |-> predict_single(model, customer)]
    /\ UNCHANGED <<model, latest_prediction_storage, cl, args>>

NextBatch == PredictBatch \/ AnalyzeHighRiskGroup \/ PredictSingle

SpecBatch == InitBatch /\ [][NextBatch]_vars

\* C4: the augmented table has the input's rows in order, every input
\* column with its cells as uploaded, then Churn_Probability and
\* Risk_Level; a row is High exactly when its probability exceeds 0.6.
C4_Augmentation ==
    ret.calls \in {1, 2} /\ ret.out.raised = "" =>
        LET r == ret.out.value.results_df
            probs == ret.out.value.probs
        IN  /\ r.columns = args.df.columns \o <<"Churn_Probability", "Risk_Level">>
            /\ Len(r.rows) = Len(args.df.rows)
            /\ Len(probs) = Len(args.df.rows)
            /\ \A i \in DOMAIN r.rows :
                  /\ \A c \in Range(args.df.columns) :
                        r.rows[i][c] = args.df.rows[i][c]
                  /\ r.rows[i]["Churn_Probability"] = Num(probs[i])
                  /\ r.rows[i]["Risk_Level"] = High <=> probs[i] > 600
                  /\ r.rows[i]["Risk_Level"] = Low <=> probs[i] <= 600

\* a labelled table was augmented whose rows sit on, above and below the
\* threshold
C4_Witness ==
    /\ ret.calls \in {1, 2}
    /\ ret.out.raised = ""
    /\ HasColumn(args.df, "customerID")
    /\ ret.out.value.probs = <<600, 612, 24>>
    /\ ret.out.value.results_df.rows[1]["Risk_Level"] = Low
    /\ ret.out.value.results_df.rows[2]["Risk_Level"] = High

\* C7: when no row of a scored batch exceeds 0.6 the summary is the fixed
\* sentinel, no aggregate is computed, and the augmented table holds every
\* input row tagged Low.
C7_EmptyCohort ==
    /\ ret.calls \in {1, 2} /\ ret.out.raised = ""
            /\ (\A i \in DOMAIN ret.out.value.probs : ret.out.value.probs[i] <= 600)
        => /\ ret.out.value.shap_aggregate = None
           /\ Len(ret.out.value.results_df.rows) = Len(args.df.rows)
           /\ \A i \in DOMAIN args.df.rows :
                 ret.out.value.results_df.rows[i]["Risk_Level"] = Low
           /\ ~("calculate_batch_shap_aggregate" \in Range(ret.out.did))
    /\ ret.calls = 2
            /\ (\A i \in DOMAIN ret.out.value.probs : ret.out.value.probs[i] <= 600)
        => ret.summary = [text |-> Sentinel]

\* a batch of three rows, none above the threshold, has been summarised
C7_Witness ==
    /\ ret.calls = 2
    /\ args.include_shap
    /\ ret.out.value.probs = <<600, 24, 600>>
    /\ ret.summary = [text |-> Sentinel]

\* an empty batch has been summarised
C7_WitnessEmpty ==
    /\ ret.calls = 2
    /\ args.df.rows = <<>>
    /\ ret.summary = [text |-> Sentinel]

\* C9: the aggregate is computed exactly when attribution is asked for and
\* some row exceeds 0.6; it lists, for each encoded feature, the mean over
\* the rows above 0.6 of the absolute contribution, in descending order of
\* that mean with ties in feature order, cut to 10 entries; predict_single
\* never computes it.
C9_Aggregate ==
    /\ ret.calls \in {1, 2} /\ ret.out.raised = "" =>
         LET probs == ret.out.value.probs
             hi == {i \in DOMAIN probs : probs[i] > 600}
             agg == ret.out.value.shap_aggregate
             F == EncodedFeatures(model)
             phi == Contributions(F, EncodeRows(F, ret.out.value.df_clean.rows))
             total(j) == Sum([i \in DOMAIN probs |->
                                IF i \in hi THEN Abs(phi[i][j]) ELSE 0])
             rank(j) == 1 + Cardinality({k \in DOMAIN F :
                              \/ total(k) > total(j)
                              \/ total(k) = total(j) /\ k < j})
         IN  IF ~args.include_shap \/ hi = {} THEN agg = None
             ELSE /\ agg # None
                  /\ Len(agg.top_features) = Min(Len(F), 10)
                  /\ \A j \in DOMAIN F :
                        rank(j) <= 10 =>
                            /\ agg.top_features[rank(j)][1] = F[j].name
                            /\ agg.top_features[rank(j)][2] * Cardinality(hi)
                                  = total(j)
    /\ ret.calls = 3 =>
         ~("calculate_batch_shap_aggregate" \in Range(ret.single.did))

=============================================================================
